---- MODULE Spec2Model ----
(***************************************************************************)
(* gowave: a command-line WAV player and recorder.                         *)
(*                                                                         *)
(* One process runs exactly one of two pipelines (main's command switch):  *)
(*   record  the malgo capture callback copies each hardware buffer and    *)
(*           offers it to audioChan without blocking; runRecord selects    *)
(*           over sigChan and audioChan, encodes, and finalizes.           *)
(*   play    the beep speaker goroutine streams Seq(ctrl, Callback) under  *)
(*           the speaker lock; the Bubble Tea loop runs Update and View    *)
(*           one message at a time.                                        *)
(***************************************************************************)
EXTENDS Integers, Sequences, FiniteSets, TLC

\* ------------------------------------------------------------------ bounds

\* Frames the capture hardware delivers in one run.
MaxProduced == 4

\* Capacity of audioChan in the model (the program allocates 1024 slots; the
\* model keeps the same full/not-full behaviour with a small capacity).
QueueCap == 2

\* Largest source length, in frames, of a played file.
MaxLen == 3

\* Frames the speaker asks the sequence for in one locked update.
BufFrames == 2

\* Stop signals the operating system delivers in one run.
MaxSignals == 1

\* Longest frame, in bytes, whose conversion is checked byte by byte.
MaxBytes == 4

\* ------------------------------------------------------------------ state

VARIABLES
    mode,            \* "play" or "record": the sub-command main dispatched
    \* --- record.go
    produced,        \* number of hardware buffers delivered so far (frame ids)
    pInputSamples,   \* the hardware capture buffer, reused by every callback
    dataCopy,        \* the callback's private copy, a frame [id, data]
    cbpc,            \* capture callback position: "idle" or "select"
    audioChan,       \* the buffered channel of frames
    sigChan,         \* number of signals buffered in sigChan (capacity 1)
    signals,         \* stop signals delivered by the OS so far
    rpc,             \* runRecord position: "loop", "uninit", "close", "done"
    device,          \* "started" or "uninit"
    encoder,         \* [written: frames handed to Write, closed: Close calls]
    acceptedAtStop,  \* history: ids accepted into audioChan when the first
                     \* stop signal was delivered ({} before)
    accepted,        \* history: ids ever accepted into audioChan
    delivered,       \* history: the bytes the hardware delivered, by frame id
    \* --- player
    srcLen,          \* streamer.Len()
    position,        \* streamer.Position(), advanced by the speaker goroutine
    Paused,          \* ctrl.Paused
    seqIdx,          \* beep.Seq's index of the current streamer (1-based)
    fired,           \* invocations of the completion callback
    mu,              \* holder of the speaker lock: "none", "audio", "ui"
    apc,             \* speaker goroutine: "idle", "stream", "send", "unlock"
    bufLeft,         \* samples of the current buffer still to fill
    lastCtrl,        \* history: what the last Ctrl.Stream call saw and did
    upc,             \* control loop position inside the current message
    ticks,           \* armed tick timers
    frames,          \* pending progress.FrameMsg (0 or 1)
    quits,           \* tea.Quit commands issued, QuitMsg not yet processed
    loop,            \* "Running", "Terminating", "Exited"
    cause,           \* why Update returned tea.Quit: "none", "key", "done"
    pct,             \* m.pct as the fraction <<numerator, denominator>>
    playing,         \* m.playing
    pos,             \* the tick handler's local `position`
    width,           \* m.progress.Width
    lastRead,        \* history: the last read of position off the audio thread
    gateWrite,       \* history: holder of the speaker lock when ctrl.Paused
                     \* was last written ("never" before the first write)
    toggles          \* history: gate values around consecutive space keys

capVars == <<produced, pInputSamples, dataCopy, cbpc, audioChan, sigChan,
             signals, rpc, device, encoder, acceptedAtStop, accepted,
             delivered>>

audioVars == <<position, seqIdx, fired, mu, apc, bufLeft, lastCtrl>>

uiVars == <<Paused, upc, ticks, frames, quits, loop, cause, pct, playing, pos,
            width, lastRead, gateWrite, toggles>>

vars == <<mode, capVars, srcLen, audioVars, uiVars>>

Min(a, b) == IF a < b THEN a ELSE b

\* ------------------------------------------------------------- record.go

\* Contents the hardware may put in its buffer: 16-bit samples, little endian
\* (1 and -1; -32768 and 32767 followed by a trailing odd byte).
HwBuffers == { <<1, 0, 255, 255>>, <<0, 128, 255, 127, 7>> }

NoFrame == [id |-> 0, data |-> << >>]

\* Leaving out the int16 conversion keeps the unsigned value.
Uint16LE(lo, hi) == lo + 256 * hi

\* int16(binary.LittleEndian.Uint16(b)) widened to int
Int16LE(lo, hi) ==
    LET u == lo + 256 * hi
    IN  IF u >= 32768 THEN u - 65536 ELSE u

\* the conversion loop of runRecord: len(data)/2 samples
ToIntData(data) ==
    [i \in 1..(Len(data) \div 2) |-> Int16LE(data[2 * i - 1], data[2 * i])]

\* make without copy hands on a zeroed buffer of the right length.
MakeOnly(src) == [i \in 1..Len(src) |-> 0]

\* make + copy of the callback
CopyBytes(src) == [i \in 1..Len(src) |-> src[i]]

\* A different bug would be to keep the newest frame and evict the oldest.
SelectSendEvictOldest(q, f) ==
    IF Len(q) < QueueCap THEN Append(q, f) ELSE Append(Tail(q), f)

\* select { case audioChan <- dataCopy: default: }
SelectSend(q, f) ==
    IF Len(q) < QueueCap THEN Append(q, f) ELSE q

\* A LIFO hand-off would return the newest frame first.
ReceiveNewest(q) == [frame |-> q[Len(q)], rest |-> SubSeq(q, 1, Len(q) - 1)]

\* data := <-audioChan
Receive(q) == [frame |-> Head(q), rest |-> Tail(q)]

\* Closing the encoder before stopping the device.
FinalizeCloseFirst == <<"close", "uninit">>

\* The order of the clean-up statements after the loop.
FinalizeOrder == <<"uninit", "close">>

\* The step of the clean-up that follows step s ("done" after the last).
StepAfter(s) ==
    LET i == CHOOSE k \in 1..Len(FinalizeOrder) : FinalizeOrder[k] = s
    IN  IF i < Len(FinalizeOrder) THEN FinalizeOrder[i + 1] ELSE "done"

\* The hardware delivers a buffer; the callback copies it.
DataCopy ==
    /\ mode = "record"
    /\ device = "started"
    /\ cbpc = "idle"
    /\ produced < MaxProduced
    /\ \E b \in HwBuffers :
         /\ pInputSamples' = b
         /\ dataCopy' = [id |-> produced + 1, data |-> CopyBytes(b)]
    /\ produced' = produced + 1
    /\ cbpc' = "select"
    /\ delivered' = Append(delivered, pInputSamples')
    /\ UNCHANGED <<mode, audioChan, sigChan, signals, rpc, device, encoder,
                   acceptedAtStop, accepted, srcLen, audioVars, uiVars>>

\* The callback's non-blocking send, then return.
DataSelect ==
    /\ mode = "record"
    /\ cbpc = "select"
    /\ audioChan' = SelectSend(audioChan, dataCopy)
    /\ accepted' = IF Len(audioChan) < QueueCap
                   THEN accepted \cup {dataCopy.id} ELSE accepted
    /\ cbpc' = "idle"
    /\ dataCopy' = NoFrame
    /\ UNCHANGED <<mode, produced, pInputSamples, delivered, sigChan, signals,
                   rpc, device, encoder, acceptedAtStop, srcLen, audioVars,
                   uiVars>>

\* signal.Notify: the runtime offers the signal to sigChan without blocking.
SignalDeliver ==
    /\ mode = "record"
    /\ rpc # "done"
    /\ signals < MaxSignals
    /\ signals' = signals + 1
    /\ sigChan' = IF sigChan < 1 THEN sigChan + 1 ELSE sigChan
    /\ acceptedAtStop' = IF signals = 0 THEN accepted ELSE acceptedAtStop
    /\ UNCHANGED <<mode, produced, pInputSamples, delivered, dataCopy, cbpc,
                   audioChan, rpc, device, encoder, accepted, srcLen,
                   audioVars, uiVars>>

\* Honouring the signal only once the channel of frames is empty.
LoopStopAfterDrain ==
    /\ mode = "record"
    /\ rpc = "loop"
    /\ sigChan > 0
    /\ Len(audioChan) = 0
    /\ sigChan' = sigChan - 1
    /\ rpc' = FinalizeOrder[1]
    /\ UNCHANGED <<mode, produced, pInputSamples, delivered, dataCopy, cbpc,
                   audioChan, signals, device, encoder, acceptedAtStop,
                   accepted, srcLen, audioVars, uiVars>>

\* case <-sigChan: break Loop
LoopStop ==
    /\ mode = "record"
    /\ rpc = "loop"
    /\ sigChan > 0
    /\ sigChan' = sigChan - 1
    /\ rpc' = FinalizeOrder[1]
    /\ UNCHANGED <<mode, produced, pInputSamples, delivered, dataCopy, cbpc,
                   audioChan, signals, device, encoder, acceptedAtStop,
                   accepted, srcLen, audioVars, uiVars>>

\* Treating a failed write like the start-up errors (panic) would leave the
\* loop without finalizing.
PanicOnWriteError(ok) == IF ok THEN "loop" ELSE "panicked"

\* if err := encoder.Write(buf); err != nil { Println }: the loop goes on
AfterWrite(ok) == "loop"

\* case data := <-audioChan: convert, encoder.Write (which may fail)
LoopData ==
    /\ mode = "record"
    /\ rpc = "loop"
    /\ Len(audioChan) > 0
    /\ LET r == Receive(audioChan)
       IN  /\ audioChan' = r.rest
           /\ \E ok \in BOOLEAN :
                /\ encoder' = [encoder EXCEPT !.written =
                                Append(@, [id |-> r.frame.id,
                                           intData |-> ToIntData(r.frame.data),
                                           ok |-> ok,
                                           afterClose |-> encoder.closed > 0])]
                /\ rpc' = AfterWrite(ok)
    /\ UNCHANGED <<mode, produced, pInputSamples, delivered, dataCopy, cbpc,
                   sigChan, signals, device, acceptedAtStop, accepted, srcLen,
                   audioVars, uiVars>>

\* device.Uninit(): waits for a running callback, then no callback runs again
DeviceUninit ==
    /\ mode = "record"
    /\ rpc = "uninit"
    /\ cbpc = "idle"
    /\ device' = "uninit"
    /\ rpc' = StepAfter("uninit")
    /\ UNCHANGED <<mode, produced, pInputSamples, delivered, dataCopy, cbpc,
                   audioChan, sigChan, signals, encoder, acceptedAtStop,
                   accepted, srcLen, audioVars, uiVars>>

\* encoder.Close()
EncoderClose ==
    /\ mode = "record"
    /\ rpc = "close"
    /\ encoder' = [encoder EXCEPT !.closed = @ + 1,
                                  !.closedWhile = device]
    /\ rpc' = StepAfter("close")
    /\ UNCHANGED <<mode, produced, pInputSamples, delivered, dataCopy, cbpc,
                   audioChan, sigChan, signals, device, acceptedAtStop,
                   accepted, srcLen, audioVars, uiVars>>

\* ------------------------------------------------- player: speaker goroutine

\* Wrapping the callback before the source would signal before any frame.
SeqCallbackFirst == <<"callback", "ctrl">>

\* beep.Seq(ctrl, beep.Callback(func() { done <- true }))
SeqOrder == <<"ctrl", "callback">>

audioLive == mode = "play" /\ loop # "Exited"

\* speaker update: take the lock and ask the mixer for one buffer
AudioLock ==
    /\ audioLive
    /\ apc = "idle"
    /\ mu = "none"
    /\ mu' = "audio"
    /\ apc' = "stream"
    /\ bufLeft' = BufFrames
    /\ UNCHANGED <<mode, capVars, srcLen, position, seqIdx, fired, lastCtrl,
                   uiVars>>

\* Seq hands the rest of the buffer to ctrl: silence while paused, else the
\* decoder, which delivers at most the frames that remain and reports the end
\* of the source with (0, false).
StreamCtrl ==
    /\ audioLive
    /\ apc = "stream"
    /\ bufLeft > 0
    /\ seqIdx <= Len(SeqOrder)
    /\ SeqOrder[seqIdx] = "ctrl"
    /\ IF Paused
       THEN /\ bufLeft' = 0
            /\ lastCtrl' = [paused |-> TRUE, before |-> position,
                            after |-> position, out |-> "silence"]
            /\ UNCHANGED <<position, seqIdx>>
       ELSE IF position >= srcLen
       THEN /\ seqIdx' = seqIdx + 1
            /\ lastCtrl' = [paused |-> FALSE, before |-> position,
                            after |-> position, out |-> "end"]
            /\ UNCHANGED <<position, bufLeft>>
       ELSE LET n == Min(bufLeft, srcLen - position)
            IN  /\ position' = position + n
                /\ bufLeft' = bufLeft - n
                /\ lastCtrl' = [paused |-> FALSE, before |-> position,
                                after |-> position + n, out |-> "samples"]
                /\ UNCHANGED seqIdx
    /\ UNCHANGED <<mode, capVars, srcLen, fired, mu, apc, uiVars>>

\* Seq reaches the callback streamer: f() runs `done <- true`, a send on an
\* unbuffered channel, which waits for a receiver.
StreamCallback ==
    /\ audioLive
    /\ apc = "stream"
    /\ bufLeft > 0
    /\ seqIdx <= Len(SeqOrder)
    /\ SeqOrder[seqIdx] = "callback"
    /\ fired' = fired + 1
    /\ apc' = "send"
    /\ UNCHANGED <<mode, capVars, srcLen, position, seqIdx, mu, bufLeft,
                   lastCtrl, uiVars>>

\* The buffer is full or the sequence is drained: mixer.Stream returns.
StreamEnd ==
    /\ audioLive
    /\ apc = "stream"
    /\ (bufLeft = 0 \/ seqIdx > Len(SeqOrder))
    /\ apc' = "unlock"
    /\ UNCHANGED <<mode, capVars, srcLen, position, seqIdx, fired, mu,
                   bufLeft, lastCtrl, uiVars>>

AudioUnlock ==
    /\ audioLive
    /\ apc = "unlock"
    /\ mu' = "none"
    /\ apc' = "idle"
    /\ UNCHANGED <<mode, capVars, srcLen, position, seqIdx, fired, bufLeft,
                   lastCtrl, uiVars>>

\* ---------------------------------------------------- player: control loop

\* Setting the gate instead of flipping it.
PauseOnly(p) == TRUE

\* m.audio.ctrl.Paused = !m.audio.ctrl.Paused
TogglePaused(p) == ~p

\* Dividing the length by the position.
PercentInverted(p, length) == <<length, p>>

\* Showing what remains instead of what has played.
PercentRemaining(p, length) == <<length - p, length>>

\* float64(position) / float64(length), kept as a fraction
Percent(p, length) == <<p, length>>

\* The width bound of the resize handler.
WidthFor(w) == IF w - 10 > 80 THEN 80 ELSE w - 10

\* Terminal widths a resize may report.
Widths == {50, 120}

uiReady == mode = "play" /\ loop # "Exited" /\ upc = "idle"

\* The gate values around a run of consecutive space keys (the last three).
Toggled(old, new) ==
    IF toggles = << >> THEN <<old, new>>
    ELSE IF Len(toggles) < 3 THEN Append(toggles, new)
    ELSE <<toggles[2], toggles[3], new>>

\* A quit key that returns no command leaves the loop running.
KeyQuitIgnored ==
    /\ uiReady
    /\ upc' = "view"
    /\ toggles' = << >>
    /\ UNCHANGED <<mode, capVars, srcLen, audioVars, Paused, gateWrite, ticks,
                   frames, quits, loop, cause, pct, playing, pos, width,
                   lastRead>>

\* case "q", "ctrl+c", "esc": return m, tea.Quit
KeyQuit ==
    /\ uiReady
    /\ quits' = 1
    /\ loop' = "Terminating"
    /\ cause' = IF cause = "none" THEN "key" ELSE cause
    /\ upc' = "view"
    /\ toggles' = << >>
    /\ UNCHANGED <<mode, capVars, srcLen, audioVars, Paused, gateWrite, ticks,
                   frames, pct, playing, pos, width, lastRead>>

\* case " ": flip ctrl.Paused (no lock taken), mirror it in m.playing
KeySpace ==
    /\ uiReady
    /\ Paused' = TogglePaused(Paused)
    /\ playing' = ~Paused'
    /\ gateWrite' = mu
    /\ toggles' = Toggled(Paused, Paused')
    /\ upc' = "view"
    /\ UNCHANGED <<mode, capVars, srcLen, audioVars, ticks, frames, quits,
                   loop, cause, pct, pos, width, lastRead>>

\* tickMsg, step 1: select { case <-m.audio.done: return m, tea.Quit; default: }
\* The receive succeeds exactly when the speaker goroutine is waiting in its
\* send; the callback then returns and Seq moves past it.
TickSelect ==
    /\ uiReady
    /\ ticks > 0
    /\ toggles' = << >>
    /\ IF apc = "send"
       THEN /\ apc' = "stream"
            /\ seqIdx' = seqIdx + 1
            /\ ticks' = ticks - 1
            /\ quits' = 1
            /\ loop' = "Terminating"
            /\ cause' = IF cause = "none" THEN "done" ELSE cause
            /\ upc' = "view"
       ELSE /\ ticks' = ticks - 1
            /\ upc' = "paused"
            /\ UNCHANGED <<apc, seqIdx, quits, loop, cause>>
    /\ UNCHANGED <<mode, capVars, srcLen, position, fired, mu, bufLeft,
                   lastCtrl, Paused, gateWrite, frames, pct, playing, pos,
                   width, lastRead>>

\* A tick that skips the pause check reads and stores while paused.
TickPausedIgnoresGate ==
    /\ mode = "play"
    /\ upc = "paused"
    /\ upc' = "lock"
    /\ UNCHANGED <<mode, capVars, srcLen, audioVars, Paused, gateWrite, ticks,
                   frames, quits, loop, cause, pct, playing, pos, width,
                   lastRead, toggles>>

\* A paused tick that returns no command loses the timer.
TickPausedNoRearm ==
    /\ mode = "play"
    /\ upc = "paused"
    /\ upc' = IF Paused THEN "view" ELSE "lock"
    /\ UNCHANGED <<mode, capVars, srcLen, audioVars, Paused, gateWrite, ticks,
                   frames, quits, loop, cause, pct, playing, pos, width,
                   lastRead, toggles>>

\* step 2: if m.audio.ctrl.Paused { return m, tickCmd() }
TickPaused ==
    /\ mode = "play"
    /\ upc = "paused"
    /\ IF Paused
       THEN /\ ticks' = ticks + 1
            /\ upc' = "view"
       ELSE /\ upc' = "lock"
            /\ UNCHANGED ticks
    /\ UNCHANGED <<mode, capVars, srcLen, audioVars, Paused, gateWrite,
                   frames, quits, loop, cause, pct, playing, pos, width,
                   lastRead, toggles>>

\* step 3: speaker.Lock()
TickLock ==
    /\ mode = "play"
    /\ upc = "lock"
    /\ mu = "none"
    /\ mu' = "ui"
    /\ upc' = "read"
    /\ UNCHANGED <<mode, capVars, srcLen, position, seqIdx, fired, apc,
                   bufLeft, lastCtrl, Paused, gateWrite, ticks, frames, quits,
                   loop, cause, pct, playing, pos, width, lastRead, toggles>>

\* position := m.audio.streamer.Position()
TickRead ==
    /\ mode = "play"
    /\ upc = "read"
    /\ pos' = position
    /\ lastRead' = [by |-> "tick", holder |-> mu, value |-> position]
    /\ upc' = "unlock"
    /\ UNCHANGED <<mode, capVars, srcLen, audioVars, Paused, gateWrite, ticks,
                   frames, quits, loop, cause, pct, playing, width, toggles>>

\* speaker.Unlock(); steps 4 and 5: the percentage, SetPercent, the next tick
TickUnlock ==
    /\ mode = "play"
    /\ upc = "unlock"
    /\ mu' = "none"
    /\ pct' = IF srcLen > 0 THEN Percent(pos, srcLen) ELSE pct
    /\ frames' = 1
    /\ ticks' = ticks + 1
    /\ upc' = "view"
    /\ UNCHANGED <<mode, capVars, srcLen, position, seqIdx, fired, apc,
                   bufLeft, lastCtrl, Paused, gateWrite, quits, loop, cause,
                   playing, pos, width, lastRead, toggles>>

\* case progress.FrameMsg: one animation step, which may ask for another
FrameMsg ==
    /\ uiReady
    /\ frames > 0
    /\ \E again \in 0..1 : frames' = again
    /\ upc' = "view"
    /\ toggles' = << >>
    /\ UNCHANGED <<mode, capVars, srcLen, audioVars, Paused, gateWrite, ticks,
                   quits, loop, cause, pct, playing, pos, width, lastRead>>

\* case tea.WindowSizeMsg
Resize ==
    /\ uiReady
    /\ \E w \in Widths : width' = WidthFor(w)
    /\ upc' = "view"
    /\ toggles' = << >>
    /\ UNCHANGED <<mode, capVars, srcLen, audioVars, Paused, gateWrite, ticks,
                   frames, quits, loop, cause, pct, playing, pos, lastRead>>

\* View, rendered after Init and after every Update: the elapsed time is
\* formatted from streamer.Position(), read without the speaker lock.
View ==
    /\ mode = "play"
    /\ upc = "view"
    /\ lastRead' = [by |-> "view", holder |-> mu, value |-> position]
    /\ upc' = "idle"
    /\ UNCHANGED <<mode, capVars, srcLen, audioVars, Paused, gateWrite, ticks,
                   frames, quits, loop, cause, pct, playing, pos, width,
                   toggles>>

\* The QuitMsg produced by tea.Quit ends the event loop; runPlayer returns.
QuitMsg ==
    /\ uiReady
    /\ quits > 0
    /\ quits' = 0
    /\ loop' = "Exited"
    /\ UNCHANGED <<mode, capVars, srcLen, audioVars, Paused, gateWrite, upc,
                   ticks, frames, cause, pct, playing, pos, width, lastRead,
                   toggles>>

\* ------------------------------------------------------------ specification

\* main: `record <file>` starts runRecord up to the loop; `play <file>` (or a
\* bare file name) opens a source of some length, starts the speaker and
\* renders the first view (Init, below, from these two parts).
InitCapture ==
    /\ produced = 0
    /\ pInputSamples = << >>
    /\ dataCopy = NoFrame
    /\ cbpc = "idle"
    /\ audioChan = << >>
    /\ sigChan = 0
    /\ signals = 0
    /\ rpc = "loop"
    /\ device = "started"
    /\ encoder = [written |-> << >>, closed |-> 0, closedWhile |-> "none"]
    /\ acceptedAtStop = {}
    /\ accepted = {}
    /\ delivered = << >>

InitPlayer ==
    /\ srcLen \in IF mode = "play" THEN 0..MaxLen ELSE {0}
    /\ position = 0
    /\ Paused = FALSE
    /\ seqIdx = 1
    /\ fired = 0
    /\ mu = "none"
    /\ apc = "idle"
    /\ bufLeft = 0
    /\ lastCtrl = [paused |-> FALSE, before |-> 0, after |-> 0, out |-> "none"]
    /\ upc = IF mode = "play" THEN "view" ELSE "idle"
    /\ ticks = IF mode = "play" THEN 1 ELSE 0
    /\ frames = 0
    /\ quits = 0
    /\ loop = "Running"
    /\ cause = "none"
    /\ pct = <<0, 1>>
    /\ playing = TRUE
    /\ pos = 0
    /\ width = 0
    /\ lastRead = [by |-> "none", holder |-> "none", value |-> 0]
    /\ gateWrite = "never"
    /\ toggles = << >>

Init ==
    /\ mode \in {"play", "record"}
    /\ InitCapture
    /\ InitPlayer

Next ==
    \/ DataCopy
    \/ DataSelect
    \/ SignalDeliver
    \/ LoopStop
    \/ LoopData
    \/ DeviceUninit
    \/ EncoderClose
    \/ AudioLock
    \/ StreamCtrl
    \/ StreamCallback
    \/ StreamEnd
    \/ AudioUnlock
    \/ KeyQuit
    \/ KeySpace
    \/ TickSelect
    \/ TickPaused
    \/ TickLock
    \/ TickRead
    \/ TickUnlock
    \/ FrameMsg
    \/ Resize
    \/ View
    \/ QuitMsg

Spec == Init /\ [][Next]_vars

\* `gowave record <file>` alone, with the scheduling the runtime gives it: a
\* select with several ready cases picks each of them with equal chance, so a
\* case that is ready again and again is eventually taken; a callback that has
\* started returns; the statements after the loop run.
InitRecord == Init /\ mode = "record"

NextRecord ==
    \/ DataCopy
    \/ DataSelect
    \/ SignalDeliver
    \/ LoopStop
    \/ LoopData
    \/ DeviceUninit
    \/ EncoderClose

RecordFair ==
    /\ SF_vars(LoopStop)
    /\ WF_vars(DataSelect)
    /\ WF_vars(DeviceUninit)
    /\ WF_vars(EncoderClose)

RecordSpec == InitRecord /\ [][NextRecord]_vars /\ RecordFair

\* The conversion of runRecord applied to every frame of up to MaxBytes bytes
\* over these byte values: the hardware has delivered one such buffer, the
\* callback has copied and queued it, and the loop receives it.
ByteVals == {0, 1, 127, 128, 255}

ByteSeqs == UNION { [1..n -> ByteVals] : n \in 0..MaxBytes }

InitConv ==
    /\ mode = "record"
    /\ InitPlayer
    /\ \E b \in ByteSeqs :
         /\ pInputSamples = b
         /\ delivered = <<b>>
         /\ audioChan = SelectSend(<< >>, [id |-> 1, data |-> CopyBytes(b)])
    /\ produced = 1
    /\ accepted = {1}
    /\ dataCopy = NoFrame
    /\ cbpc = "idle"
    /\ sigChan = 0
    /\ signals = 0
    /\ rpc = "loop"
    /\ device = "started"
    /\ encoder = [written |-> << >>, closed |-> 0, closedWhile |-> "none"]
    /\ acceptedAtStop = {}

NextConv == LoopData

ConvSpec == InitConv /\ [][NextConv]_vars

\* ------------------------------------------------------------------ claims

WrittenIds == { encoder.written[i].id : i \in 1..Len(encoder.written) }

\* C1: with no quit intent, a completed playback never leaves the tick handler
\* waiting for the speaker lock while the speaker goroutine, holding that lock,
\* waits for a receiver of the completion signal.
C1_CompletionNeverStuck ==
    ~(cause = "none" /\ upc = "lock" /\ apc = "send" /\ mu = "audio")

\* C2: once the encoder is closed, every frame that audioChan had accepted
\* when the stop signal was delivered has been handed to the encoder.
C2_AcceptedBeforeStopEncoded ==
    encoder.closed > 0 => acceptedAtStop \subseteq WrittenIds

\* C3: the frames handed to the encoder are frames the callback produced, in
\* strictly increasing order of production (no reordering, no duplicate).
C3_WrittenIsOrderedSubsequence ==
    /\ \A i \in 1..Len(encoder.written) :
         encoder.written[i].id \in 1..produced
    /\ \A i, j \in 1..Len(encoder.written) :
         i < j => encoder.written[i].id < encoder.written[j].id

\* C3 witness: a frame was dropped and a later frame still reached the encoder.
C3_Witness ==
    \E i \in 1..Len(encoder.written) :
        /\ i > 1
        /\ encoder.written[i].id > encoder.written[i - 1].id + 1

\* C4: audioChan never holds more than its capacity, the callback's send step
\* can always be taken (it never waits), and a send on a full channel leaves
\* the queued frames as they were.
C4_CallbackNeverBlocks ==
    /\ [](Len(audioChan) <= QueueCap)
    /\ [](cbpc = "select" => ENABLED DataSelect)
    /\ [][(cbpc = "select" /\ cbpc' = "idle" /\ Len(audioChan) = QueueCap)
            => audioChan' = audioChan]_vars

\* C4 witness: the consumer has left the loop, the channel is full, and the
\* callback returned after dropping the newest frame.
C4_Witness ==
    /\ rpc = "uninit"
    /\ cbpc = "idle"
    /\ Len(audioChan) = QueueCap
    /\ produced > QueueCap
    /\ produced \notin accepted

\* C5: the completion callback runs at most once, and only when the position
\* has reached the end of the source.
C5_CompletionOnceAfterLastFrame ==
    /\ fired <= 1
    /\ fired > 0 => position = srcLen
    /\ apc = "send" => position = srcLen

\* C5 witness: a source of the largest length played to its end, the signal
\* was received, and the speaker kept running afterwards.
C5_Witness ==
    /\ srcLen = MaxLen
    /\ fired = 1
    /\ cause = "done"
    /\ seqIdx > Len(SeqOrder)
    /\ apc = "stream"

\* C6: the encoder is closed at most once, only outside the receive loop and
\* with the device already stopped, and no frame is handed to it afterwards.
C6_FinalizeOrder ==
    /\ encoder.closed <= 1
    /\ device = "uninit" => rpc # "loop"
    /\ encoder.closed > 0 => (encoder.closedWhile = "uninit" /\ device = "uninit")
    /\ rpc = "done" => encoder.closed = 1
    /\ \A i \in 1..Len(encoder.written) : ~encoder.written[i].afterClose

\* C6 witness: a recording with written frames was stopped and finalized.
C6_Witness ==
    /\ rpc = "done"
    /\ encoder.closed = 1
    /\ Len(encoder.written) > 0

\* C7: every read of the position off the audio thread holds the speaker lock.
C7_PositionReadsHoldLock ==
    lastRead.by # "none" => lastRead.holder = "ui"

\* C8: two consecutive space keys restore the gate, and a buffer callback that
\* sees the gate paused emits silence and leaves the position where it was.
C8_ToggleTwiceAndPausedSilence ==
    /\ Len(toggles) = 3 => toggles[3] = toggles[1]
    /\ lastCtrl.paused => (lastCtrl.out = "silence"
                           /\ lastCtrl.after = lastCtrl.before)

\* C8 witness: playback was under way, space was pressed twice in a row, and
\* a buffer callback ran while the gate was paused.
C8_Witness ==
    /\ Len(toggles) = 3
    /\ toggles[1] = FALSE
    /\ lastCtrl.paused
    /\ lastCtrl.before > 0
    /\ lastCtrl.before < srcLen

\* C9: the position a tick reads lies in 0..srcLen and the stored percent
\* lies in [0, 1].
C9_PositionAndPercentInRange ==
    /\ lastRead.by = "tick" => (0 <= lastRead.value /\ lastRead.value <= srcLen)
    /\ 0 <= pos /\ pos <= srcLen
    /\ pct[2] > 0
    /\ 0 <= pct[1] /\ pct[1] <= pct[2]

\* C9 witness: a tick stored a percent strictly between 0 and 1.
C9_Witness ==
    /\ lastRead.by = "tick"
    /\ pct[1] > 0
    /\ pct[1] < pct[2]

\* C10: when the completion signal ends the session of a source that has
\* frames, with no quit key before it, the stored percent is 1.0.
C10_PercentIsOneAtCompletion ==
    (loop = "Terminating" /\ cause = "done" /\ srcLen > 0) => pct[1] = pct[2]

C12_PercentMonotone ==
    [][pct'[1] * pct[2] >= pct[1] * pct'[2]]_vars

\* C12 witness: after a stored non-zero percent and a pause toggle, a tick is
\* about to store a larger one.
C12_Witness ==
    /\ upc = "unlock"
    /\ pct[1] > 0
    /\ pos > pct[1]
    /\ gateWrite # "never"

\* The speaker goroutine's own steps.
SpeakerStep ==
    AudioLock \/ StreamCtrl \/ StreamCallback \/ StreamEnd \/ AudioUnlock

\* C13: inside its locked update the speaker goroutine can always take its
\* next step by itself; in particular the completion send does not wait.
C13_CompletionSendNeverBlocks ==
    (audioLive /\ apc # "idle") => ENABLED SpeakerStep

\* C14: ctrl.Paused, shared with the speaker goroutine, is written by the
\* control thread only while it holds the speaker lock.
C14_GateWrittenUnderLock ==
    gateWrite \in {"never", "ui"}

\* C15: a delivered stop signal can be taken by the loop whatever the channel
\* of frames holds; with nothing ready the loop has no step (it waits, it does
\* not poll); and once a signal has been delivered the consumer eventually
\* completes the finalization.
C15_StopEventuallyFinalizes ==
    /\ []((rpc = "loop" /\ sigChan > 0) => ENABLED LoopStop)
    /\ []((rpc = "loop" /\ sigChan = 0 /\ audioChan = << >>)
            => ~ENABLED (LoopStop \/ LoopData))
    /\ (signals > 0) ~> (rpc = "done")

\* C15 witness: the consumer finalized after a signal while frames were still
\* queued.
C15_Witness ==
    /\ signals > 0
    /\ rpc = "done"
    /\ Len(audioChan) = QueueCap

\* C16: the stored percent changes only in the last step of a tick that found
\* no completion signal, the gate open and a source with frames; a tick
\* handled while paused only re-arms the tick.
C16_PercentChangesOnlyOnRunningTick ==
    /\ [][pct' # pct
            => (upc = "unlock" /\ fired = 0 /\ ~Paused /\ srcLen > 0)]_vars
    /\ [][(upc = "paused" /\ Paused /\ upc' # upc)
            => (/\ upc' = "view"
                /\ ticks' = ticks + 1
                /\ pct' = pct
                /\ pos' = pos
                /\ frames' = frames
                /\ lastRead' = lastRead)]_vars

\* C16 witness: with a non-zero percent stored, a tick is being handled while
\* the gate is paused.
C16_Witness ==
    /\ upc = "paused"
    /\ Paused
    /\ pct[1] > 0

\* C17: every frame in the callback's hands, in audioChan or converted for the
\* encoder carries the bytes the hardware buffer held when it was produced.
C17_FramesKeepCapturedBytes ==
    /\ cbpc = "select" => dataCopy.data = delivered[dataCopy.id]
    /\ \A i \in 1..Len(audioChan) :
         audioChan[i].data = delivered[audioChan[i].id]
    /\ \A i \in 1..Len(encoder.written) :
         encoder.written[i].intData
            = ToIntData(delivered[encoder.written[i].id])

\* C17 witness: a full channel whose oldest frame differs from what the
\* hardware buffer holds by now, with an earlier frame already converted.
C17_Witness ==
    /\ Len(audioChan) = QueueCap
    /\ audioChan[1].data # pInputSamples
    /\ produced > audioChan[1].id
    /\ Len(encoder.written) > 0

HasFailedWrite == \E i \in 1..Len(encoder.written) : ~encoder.written[i].ok

\* C18: a write, failed or not, leaves the consumer in the loop; after a
\* failed write the loop can still receive the next frame and take the stop
\* signal, frames keep their order, and the encoder is closed once, at the end.
C18_WriteErrorKeepsLoop ==
    /\ [][Len(encoder'.written) > Len(encoder.written) => rpc' = "loop"]_vars
    /\ [](HasFailedWrite =>
            /\ rpc \in {"loop", "uninit", "close", "done"}
            /\ (rpc = "loop" /\ audioChan # << >>) => ENABLED LoopData
            /\ (rpc = "loop" /\ sigChan > 0) => ENABLED LoopStop
            /\ \A i, j \in 1..Len(encoder.written) :
                 i < j => encoder.written[i].id < encoder.written[j].id
            /\ encoder.closed <= 1
            /\ rpc = "done" => encoder.closed = 1)

\* C18 witness: a write failed, a later frame was written, and the recording
\* was stopped and finalized.
C18_Witness ==
    /\ rpc = "done"
    /\ encoder.closed = 1
    /\ \E i, j \in 1..Len(encoder.written) :
         i < j /\ ~encoder.written[i].ok /\ encoder.written[j].ok

\* C19: a frame of n bytes gives n \div 2 samples, and sample i is the value in
\* -32768..32767 congruent modulo 65536 to byte 2i-1 + 256 * byte 2i.
C19_SamplesAreSigned16LE ==
    \A k \in 1..Len(encoder.written) :
        LET w == encoder.written[k]
            d == delivered[w.id]
        IN  /\ Len(w.intData) = Len(d) \div 2
            /\ \A i \in 1..Len(w.intData) :
                 /\ w.intData[i] \in -32768..32767
                 /\ (w.intData[i] - (d[2 * i - 1] + 256 * d[2 * i])) % 65536 = 0

\* C19 witness: a three-byte frame converted to the single sample -32768.
C19_Witness ==
    \E k \in 1..Len(encoder.written) :
        /\ Len(delivered[encoder.written[k].id]) = 3
        /\ encoder.written[k].intData = << -32768 >>

\* C20 (as claimed): in a playback one tick is pending between messages while the loop is
\* Running, never more than one, and none is re-armed in Terminating.
C20_OneTickAndNoneAfterQuit ==
    /\ []((mode = "play" /\ loop = "Running" /\ upc \in {"idle", "view"})
            => ticks = 1)
    /\ [](ticks <= 1)
    /\ [][loop = "Terminating" => ticks' <= ticks]_vars

\* C20 (amended): in a playback one tick is pending between messages while the loop is
\* Running, none while the tick handler runs, never more than one, and none
\* once a tick has received the completion signal.
C20_OneTickUntilCompletionReceived ==
    /\ (mode = "play" /\ loop = "Running" /\ upc \in {"idle", "view"})
         => ticks = 1
    /\ upc \in {"paused", "lock", "read", "unlock"} => ticks = 0
    /\ ticks <= 1
    /\ seqIdx > Len(SeqOrder) => ticks = 0

\* C20 witness: after a stored percent, a pause and a resize, the loop is
\* Running between messages with its one tick pending.
C20_Witness ==
    /\ loop = "Running"
    /\ upc = "idle"
    /\ Paused
    /\ width > 0
    /\ pct[1] > 0
    /\ ticks = 1

====
